---- MODULE Spec2Model ----
(***************************************************************************)
(* Model of crates/test_utils_solana/src/test_validator_runner.rs: the     *)
(* process-wide port registry USED_PORTS, the random port search           *)
(* find_ports, and the staged start-up (run_internal / run) and release    *)
(* (Drop) of a TestValidatorRunner.                                        *)
(*                                                                         *)
(* Two callers (threads or tasks) each build props and run a validator.    *)
(* A caller moves one stage of run_internal at a time; stages of different *)
(* callers interleave freely.  The registry calls of one stage (each its   *)
(* own critical section on the USED_PORTS mutex) are taken together.       *)
(* Collaborators outside the repository (the faucet thread, the test       *)
(* validator, the airdrop RPC, the OS port table) answer                   *)
(* nondeterministically, and may not answer at all.                        *)
(***************************************************************************)
EXTENDS Integers, Sequences, FiniteSets, TLC

\* ---------------------------------------------------------------- bounds

\* Most copies of one handle alive at once (TestValidatorRunner is Clone).
MaxHandles == 2

\* Number of low random bases the model samples, BaseStride apart.
NBases == 2

\* Distance between sampled bases; below 24, so sampled PortSets overlap.
BaseStride == 10

\* Longest list of funded pubkeys.
MaxPubkeys == 2

\* Most confirmations of a TransactionStatus.
MaxConfirmations == 3

\* Most account keys of a legacy message, most static keys of a v0 message.
MaxKeys == 2

\* Most loaded writable, and most loaded readonly, addresses of a v0 message.
MaxLoaded == 1

\* ------------------------------------------------------ program constants

\* u16 arithmetic wraps at 2^16.
U16Modulus == 65536

\* u16::MAX
U16Max == 65535

\* rng.random_range(1000..max): lowest base.
MinBase == 1000

\* let mut attempts = 100;
InitialAttempts == 100

\* range_start = port + 3
GossipOffset == 3

\* range_end = range_start + 20
GossipSpan == 20

\* #[builder(default = sol_to_lamports(5.0))]
DefaultSol == 5

\* #[builder(default = 1000, setter(into))]
DefaultWarpSlot == 1000

\* The faucet's genesis account: sol_to_lamports(1_000_000.0)
FaucetSol == 1000000

\* The warm-up airdrop: sol_to_lamports(500.0)
WarmupSol == 500

Add16(a, b) == (a + b) % U16Modulus

\* A mutation of FindMax: the margin below u16::MAX left out.
FindMaxNoMargin == U16Max

\* let max = u16::MAX - 25;
FindMax == U16Max - 25

\* The callers.
Runners == {"r1", "r2"}

\* TestValidatorPorts::builder() defaults.
DefaultPorts ==
    [rpc |-> 8899, pubsub |-> 8900, faucet |-> 9900, gossip_range |-> <<8001, 8021>>]

\* PortSets a caller supplies through the builder: the defaults, the defaults
\* with pubsub set to the faucet's port (run_internal hands pubsub to no
\* service), and a short set inside the sampled random ranges.
ExplicitPortSets ==
    { DefaultPorts,
      [DefaultPorts EXCEPT !.pubsub = 9900],
      [rpc |-> 1023, pubsub |-> 1024, faucet |-> 1025, gossip_range |-> <<1026, 1028>>] }

\* Placeholder of props.ports before the builder has run.
NoPorts == [rpc |-> 0, pubsub |-> 0, faucet |-> 0, gossip_range |-> <<1, 0>>]

\* The bases rng.random_range(1000..max) is sampled at: NBases low ones and
\* the highest one.
BaseChoices ==
    { b \in {MinBase + BaseStride * k : k \in 0..(NBases - 1)} \cup {FindMax - 1} :
        MinBase <= b /\ b < FindMax }

\* The ports a for loop over gossip_range.0..=gossip_range.1 visits.
GossipPorts(p) == p.gossip_range[1] .. p.gossip_range[2]

\* Every port run_internal marks for a PortSet.
PortsOf(p) == {p.rpc, p.pubsub, p.faucet} \cup GossipPorts(p)

\* The stages of run_internal, in the order of its source lines: the ports
\* are marked, the faucet is started (and its acknowledgment received), the
\* genesis is configured, the validator is started, the client is built, the
\* warm-up airdrop is requested, the handle is assembled.
StageOrder ==
    <<"reserve", "faucet", "genesis", "validator", "client", "warmup", "handle">>

VARIABLES
    USED_PORTS,   \* the registry: static USED_PORTS
    os_bound,     \* ports a socket of this process is bound to
    pc,           \* each caller's position
    source,       \* how each caller's props.ports was set: "none", "explicit", "random"
    ports,        \* each caller's props.ports / handle.ports
    attempts,     \* find_ports: attempts
    faucet,       \* the faucet thread of each run
    ack,          \* the acknowledgment channel of each run
    validator,    \* the TestValidator of each run
    airdrop,      \* the warm-up request of each run
    handles,      \* live TestValidatorRunner values (clones included) of each run
    outcome,      \* what the caller got: kind and cause
    log,          \* the stages each run has begun, in order
    call          \* the last application of a pure function: [fn, arg, out]

\* The state of the runs, which an application of one of the pure functions
\* below leaves alone.
run_vars ==
    <<USED_PORTS, os_bound, pc, source, ports, attempts, faucet, ack, validator,
      airdrop, handles, outcome, log>>

vars ==
    <<USED_PORTS, os_bound, pc, source, ports, attempts, faucet, ack, validator,
      airdrop, handles, outcome, log, call>>

\* No pure function applied yet.
NoCall == [fn |-> "none", arg |-> <<>>, out |-> <<>>]

\* What a caller of run has got: kind is "none" (nothing yet), "Ok" (a
\* handle), "Err" (an error value) or "panic"; internal is what run_internal
\* returned, "none" when it has not returned or was unwound by a panic.
NoOutcome == [kind |-> "none", internal |-> "none", cause |-> "none"]

Panic(internal, cause) == [kind |-> "panic", internal |-> internal, cause |-> cause]

Init ==
    /\ USED_PORTS = {}
    /\ os_bound = {}
    /\ pc = [r \in Runners |-> "new"]
    /\ source = [r \in Runners |-> "none"]
    /\ ports = [r \in Runners |-> NoPorts]
    /\ attempts = [r \in Runners |-> 0]
    /\ faucet = [r \in Runners |-> "none"]
    /\ ack = [r \in Runners |-> "none"]
    /\ validator = [r \in Runners |-> "none"]
    /\ airdrop = [r \in Runners |-> "none"]
    /\ handles = [r \in Runners |-> 0]
    /\ outcome = [r \in Runners |-> NoOutcome]
    /\ log = [r \in Runners |-> <<>>]
    /\ call = NoCall

\* ------------------------------------------------------------- registry

is_local_ipv4_port_free(port) == port \notin os_bound

\* A mutation of is_port_available: the registry is not consulted.
is_port_available_os_only(port) == is_local_ipv4_port_free(port)

is_port_available(port) ==
    is_local_ipv4_port_free(port) /\ port \notin USED_PORTS

mark_port_used(used, port) == used \cup {port}

\* A mutation of free_port: a port that is absent is inserted (a toggle).
free_port_toggle(used, port) ==
    IF port \in used THEN used \ {port} ELSE used \cup {port}

free_port(used, port) == used \ {port}

\* The ports of for port in gossip_range.0..=gossip_range.1, in loop order;
\* none when the range is inverted.
GossipSeq(p) ==
    [i \in 1..(p.gossip_range[2] - p.gossip_range[1] + 1) |-> p.gossip_range[1] + i - 1]

RECURSIVE MarkAll(_, _)
\* mark_port_used called for each port of s in turn.
MarkAll(used, s) ==
    IF s = <<>> THEN used ELSE MarkAll(mark_port_used(used, Head(s)), Tail(s))

RECURSIVE FreeAll(_, _)
\* free_port called for each port of s in turn.
FreeAll(used, s) ==
    IF s = <<>> THEN used ELSE FreeAll(free_port(used, Head(s)), Tail(s))

\* The tuple find_ports builds from a base port.
Candidate(port) ==
    LET range_start == Add16(port, GossipOffset)
        range_end == Add16(range_start, GossipSpan)
    IN [rpc |-> port, pubsub |-> Add16(port, 1), faucet |-> Add16(port, 2),
        gossip_range |-> <<range_start, range_end>>]

\* The condition of find_ports' if.
AllAvailable(p) ==
    /\ is_port_available(p.rpc)
    /\ is_port_available(p.pubsub)
    /\ is_port_available(p.faucet)
    /\ \A q \in GossipPorts(p) : is_port_available(q)

\* --------------------------------------------------------------- builder

\* TestValidatorRunnerProps::builder().ports(p): the caller's PortSet, as given.
BuildExplicit(r) ==
    /\ pc[r] = "new"
    /\ \E p \in ExplicitPortSets : ports' = [ports EXCEPT ![r] = p]
    /\ source' = [source EXCEPT ![r] = "explicit"]
    /\ pc' = [pc EXCEPT ![r] = "built"]
    /\ UNCHANGED <<USED_PORTS, os_bound, attempts, faucet, ack, validator, airdrop,
                   handles, outcome, log>>
    /\ UNCHANGED call

\* The builder's default: TestValidatorPorts::random_ports() enters find_ports.
BuildRandom(r) ==
    /\ pc[r] = "new"
    /\ source' = [source EXCEPT ![r] = "random"]
    /\ attempts' = [attempts EXCEPT ![r] = InitialAttempts]
    /\ pc' = [pc EXCEPT ![r] = "find"]
    /\ UNCHANGED <<USED_PORTS, os_bound, ports, faucet, ack, validator, airdrop,
                   handles, outcome, log>>
    /\ UNCHANGED call

\* A mutation of find_ports: the PortSet found is marked at once.
find_ports_marking(r) ==
    /\ pc[r] = "find"
    /\ \E port \in BaseChoices :
        LET left == attempts[r] - 1
            p == Candidate(port)
        IN IF AllAvailable(p)
           THEN /\ ports' = [ports EXCEPT ![r] = p]
                /\ attempts' = [attempts EXCEPT ![r] = 0]
                /\ pc' = [pc EXCEPT ![r] = "built"]
                /\ USED_PORTS' = MarkAll(USED_PORTS, <<p.rpc, p.pubsub, p.faucet>>)
                /\ UNCHANGED outcome
           ELSE IF left <= 0
           THEN /\ attempts' = [attempts EXCEPT ![r] = left]
                /\ pc' = [pc EXCEPT ![r] = "failed"]
                /\ outcome' = [outcome EXCEPT ![r] =
                       Panic("none", "random_ports: unwrap on None")]
                /\ UNCHANGED <<ports, USED_PORTS>>
           ELSE /\ attempts' = [attempts EXCEPT ![r] = left]
                /\ UNCHANGED <<ports, pc, outcome, USED_PORTS>>
    /\ UNCHANGED <<os_bound, source, faucet, ack, validator, airdrop, handles, log>>
    /\ UNCHANGED call


\* A mutation of find_ports: the budget test is attempts < 0, which allows
\* one attempt more.
find_ports_one_more(r) ==
    /\ pc[r] = "find"
    /\ \E port \in BaseChoices :
        LET left == attempts[r] - 1
            p == Candidate(port)
        IN IF AllAvailable(p)
           THEN /\ ports' = [ports EXCEPT ![r] = p]
                /\ attempts' = [attempts EXCEPT ![r] = 0]
                /\ pc' = [pc EXCEPT ![r] = "built"]
                /\ UNCHANGED outcome
           ELSE IF left < 0
           THEN /\ attempts' = [attempts EXCEPT ![r] = left]
                /\ pc' = [pc EXCEPT ![r] = "failed"]
                /\ outcome' = [outcome EXCEPT ![r] =
                       Panic("none", "random_ports: unwrap on None")]
                /\ UNCHANGED ports
           ELSE /\ attempts' = [attempts EXCEPT ![r] = left]
                /\ UNCHANGED <<ports, pc, outcome>>
    /\ UNCHANGED <<USED_PORTS, os_bound, source, faucet, ack, validator, airdrop,
                   handles, log>>
    /\ UNCHANGED call

\* One iteration of find_ports' loop.  Some(ports) goes through
\* try_random_ports and random_ports' unwrap into props.ports, and the local
\* attempts is gone; None makes random_ports' unwrap panic, before run is
\* entered.
find_ports(r) ==
    /\ pc[r] = "find"
    /\ \E port \in BaseChoices :
        LET left == attempts[r] - 1
            p == Candidate(port)
        IN IF AllAvailable(p)
           THEN /\ ports' = [ports EXCEPT ![r] = p]
                /\ attempts' = [attempts EXCEPT ![r] = 0]
                /\ pc' = [pc EXCEPT ![r] = "built"]
                /\ UNCHANGED outcome
           ELSE IF left <= 0
           THEN /\ attempts' = [attempts EXCEPT ![r] = left]
                /\ pc' = [pc EXCEPT ![r] = "failed"]
                /\ outcome' = [outcome EXCEPT ![r] =
                       Panic("none", "random_ports: unwrap on None")]
                /\ UNCHANGED ports
           ELSE /\ attempts' = [attempts EXCEPT ![r] = left]
                /\ UNCHANGED <<ports, pc, outcome>>
    /\ UNCHANGED <<USED_PORTS, os_bound, source, faucet, ack, validator, airdrop,
                   handles, log>>
    /\ UNCHANGED call

\* ---------------------------------------------------------- run_internal

\* A mutation of MarkedPorts: the gossip loop with an exclusive upper end.
MarkedPortsExclusive(p) ==
    <<p.rpc, p.pubsub, p.faucet>> \o SubSeq(GossipSeq(p), 1, Len(GossipSeq(p)) - 1)

\* The ports run_internal calls mark_port_used for, in call order.
MarkedPorts(p) == <<p.rpc, p.pubsub, p.faucet>> \o GossipSeq(p)

\* run_internal is entered: every port of props.ports is marked, whether or
\* not it is in the registry already (mark_port_used returns nothing).
reserve(r) ==
    /\ pc[r] = "built"
    /\ USED_PORTS' = MarkAll(USED_PORTS, MarkedPorts(ports[r]))
    /\ pc' = [pc EXCEPT ![r] = "reserved"]
    /\ log' = [log EXCEPT ![r] = Append(@, "reserve")]
    /\ UNCHANGED <<os_bound, source, ports, attempts, faucet, ack, validator,
                   airdrop, handles, outcome>>
    /\ UNCHANGED call

\* unbounded() and run_local_faucet_with_port: the faucet thread is spawned.
start_faucet(r) ==
    /\ pc[r] = "reserved"
    /\ faucet' = [faucet EXCEPT ![r] = "spawned"]
    /\ ack' = [ack EXCEPT ![r] = "open"]
    /\ pc' = [pc EXCEPT ![r] = "ack_wait"]
    /\ log' = [log EXCEPT ![r] = Append(@, "faucet")]
    /\ UNCHANGED <<USED_PORTS, os_bound, source, ports, attempts, validator,
                   airdrop, handles, outcome>>
    /\ UNCHANGED call

\* The faucet thread (a collaborator): it binds props.ports.faucet and sends
\* Ok, or sends Err, or ends without sending (the sender is dropped).  It
\* cannot bind a port that is bound already.
faucet_thread(r) ==
    /\ faucet[r] = "spawned"
    /\ \/ /\ ports[r].faucet \notin os_bound
          /\ os_bound' = os_bound \cup {ports[r].faucet}
          /\ faucet' = [faucet EXCEPT ![r] = "running"]
          /\ ack' = [ack EXCEPT ![r] = "Ok"]
       \/ /\ faucet' = [faucet EXCEPT ![r] = "failed"]
          /\ ack' = [ack EXCEPT ![r] = "Err"]
          /\ UNCHANGED os_bound
       \/ /\ faucet' = [faucet EXCEPT ![r] = "failed"]
          /\ ack' = [ack EXCEPT ![r] = "closed"]
          /\ UNCHANGED os_bound
    /\ UNCHANGED <<USED_PORTS, pc, source, ports, attempts, validator, airdrop,
                   handles, outcome, log>>
    /\ UNCHANGED call

\* A mutation of recv_ack: the received Result is discarded (let _ =
\* receiver.recv()), so a faucet error or a closed channel does not stop run.
recv_ack_discarded(r) ==
    /\ pc[r] = "ack_wait"
    /\ ack[r] \in {"Ok", "Err", "closed"}
    /\ pc' = [pc EXCEPT ![r] = "genesis"]
    /\ UNCHANGED <<USED_PORTS, os_bound, source, ports, attempts, faucet, ack,
                   validator, airdrop, handles, outcome, log>>
    /\ UNCHANGED call

\* A mutation of recv_ack: the two expect messages exchanged.
recv_ack_swapped(r) ==
    /\ pc[r] = "ack_wait"
    /\ ack[r] \in {"Ok", "Err", "closed"}
    /\ IF ack[r] = "Ok"
       THEN /\ pc' = [pc EXCEPT ![r] = "genesis"]
            /\ UNCHANGED outcome
       ELSE /\ pc' = [pc EXCEPT ![r] = "failed"]
            /\ outcome' = [outcome EXCEPT ![r] =
                   Panic("none", IF ack[r] = "Err"
                                 THEN "run solana faucet"
                                 ELSE "there was an error running the solana faucet")]
    /\ UNCHANGED <<USED_PORTS, os_bound, source, ports, attempts, faucet, ack,
                   validator, airdrop, handles, log>>
    /\ UNCHANGED call

\* A mutation of recv_ack: only an Ok acknowledgment ends the wait.
recv_ack_ok_only(r) ==
    /\ pc[r] = "ack_wait"
    /\ ack[r] = "Ok"
    /\ pc' = [pc EXCEPT ![r] = "genesis"]
    /\ UNCHANGED <<USED_PORTS, os_bound, source, ports, attempts, faucet, ack,
                   validator, airdrop, handles, outcome, log>>
    /\ UNCHANGED call

\* receiver.recv().expect("run solana faucet").expect("there was an error
\* running the solana faucet"): blocks until the channel holds a message or
\* is closed.
recv_ack(r) ==
    /\ pc[r] = "ack_wait"
    /\ ack[r] \in {"Ok", "Err", "closed"}
    /\ IF ack[r] = "Ok"
       THEN /\ pc' = [pc EXCEPT ![r] = "genesis"]
            /\ UNCHANGED outcome
       ELSE /\ pc' = [pc EXCEPT ![r] = "failed"]
            /\ outcome' = [outcome EXCEPT ![r] =
                   Panic("none", IF ack[r] = "Err"
                                 THEN "there was an error running the solana faucet"
                                 ELSE "run solana faucet")]
    /\ UNCHANGED <<USED_PORTS, os_bound, source, ports, attempts, faucet, ack,
                   validator, airdrop, handles, log>>
    /\ UNCHANGED call

\* The genesis descriptor is configured.
build_genesis(r) ==
    /\ pc[r] = "genesis"
    /\ pc' = [pc EXCEPT ![r] = "start"]
    /\ log' = [log EXCEPT ![r] = Append(@, "genesis")]
    /\ UNCHANGED <<USED_PORTS, os_bound, source, ports, attempts, faucet, ack,
                   validator, airdrop, handles, outcome>>
    /\ UNCHANGED call

\* A mutation of start_validator: the validator started right after the
\* faucet is spawned, before its acknowledgment and before the genesis is
\* configured.
start_validator_early(r) ==
    /\ pc[r] = "ack_wait"
    /\ validator' = [validator EXCEPT ![r] = "starting"]
    /\ pc' = [pc EXCEPT ![r] = "validator_wait"]
    /\ log' = [log EXCEPT ![r] = Append(@, "validator")]
    /\ UNCHANGED <<USED_PORTS, os_bound, source, ports, attempts, faucet, ack,
                   airdrop, handles, outcome>>
    /\ UNCHANGED call

\* genesis.start_async() is called and awaited.
start_validator(r) ==
    /\ pc[r] = "start"
    /\ validator' = [validator EXCEPT ![r] = "starting"]
    /\ pc' = [pc EXCEPT ![r] = "validator_wait"]
    /\ log' = [log EXCEPT ![r] = Append(@, "validator")]
    /\ UNCHANGED <<USED_PORTS, os_bound, source, ports, attempts, faucet, ack,
                   airdrop, handles, outcome>>
    /\ UNCHANGED call

\* The ports genesis hands the validator by number: rpc_port and gossip_port.
ValidatorPorts(p) == {p.rpc, p.gossip_range[1]}

\* start_async resolves (a collaborator): it returns the validator and the
\* mint keypair, or it panics; it returns no Result.  The validator cannot
\* bind a port that is bound already.
validator_started(r) ==
    /\ pc[r] = "validator_wait"
    /\ \/ /\ ValidatorPorts(ports[r]) \cap os_bound = {}
          /\ os_bound' = os_bound \cup ValidatorPorts(ports[r])
          /\ validator' = [validator EXCEPT ![r] = "running"]
          /\ pc' = [pc EXCEPT ![r] = "client"]
          /\ UNCHANGED outcome
       \/ /\ validator' = [validator EXCEPT ![r] = "failed"]
          /\ pc' = [pc EXCEPT ![r] = "failed"]
          /\ outcome' = [outcome EXCEPT ![r] =
                 Panic("none", "start_async panicked")]
          /\ UNCHANGED os_bound
    /\ UNCHANGED <<USED_PORTS, source, ports, attempts, faucet, ack, airdrop,
                   handles, log>>
    /\ UNCHANGED call

\* SolanaRpcClient::new_with_ws_and_commitment.
construct_client(r) ==
    /\ pc[r] = "client"
    /\ pc' = [pc EXCEPT ![r] = "warmup"]
    /\ log' = [log EXCEPT ![r] = Append(@, "client")]
    /\ UNCHANGED <<USED_PORTS, os_bound, source, ports, attempts, faucet, ack,
                   validator, airdrop, handles, outcome>>
    /\ UNCHANGED call

\* rpc.request_airdrop(&mint_keypair.pubkey(), sol_to_lamports(500.0)) is
\* issued and awaited.
request_airdrop(r) ==
    /\ pc[r] = "warmup"
    /\ airdrop' = [airdrop EXCEPT ![r] = "pending"]
    /\ pc' = [pc EXCEPT ![r] = "airdrop_wait"]
    /\ log' = [log EXCEPT ![r] = Append(@, "warmup")]
    /\ UNCHANGED <<USED_PORTS, os_bound, source, ports, attempts, faucet, ack,
                   validator, handles, outcome>>
    /\ UNCHANGED call

\* A mutation of airdrop_resolved: the airdrop's Result is discarded (no ?),
\* so the handle is assembled whether or not the airdrop confirmed.
airdrop_resolved_swallowed(r) ==
    /\ pc[r] = "airdrop_wait"
    /\ \E res \in {"ok", "err"} : airdrop' = [airdrop EXCEPT ![r] = res]
    /\ pc' = [pc EXCEPT ![r] = "assemble"]
    /\ UNCHANGED <<USED_PORTS, os_bound, source, ports, attempts, faucet, ack,
                   validator, handles, outcome, log>>
    /\ UNCHANGED call

\* The airdrop resolves (a collaborator).  On Err the ? operator returns it
\* from run_internal: the locals, the validator among them, are dropped, no
\* TestValidatorRunner was built, and run's unwrap panics.
airdrop_resolved(r) ==
    /\ pc[r] = "airdrop_wait"
    /\ \/ /\ airdrop' = [airdrop EXCEPT ![r] = "ok"]
          /\ pc' = [pc EXCEPT ![r] = "assemble"]
          /\ UNCHANGED <<validator, outcome>>
       \/ /\ airdrop' = [airdrop EXCEPT ![r] = "err"]
          /\ validator' = [validator EXCEPT ![r] = "closing"]
          /\ pc' = [pc EXCEPT ![r] = "failed"]
          /\ outcome' = [outcome EXCEPT ![r] =
                 Panic("Err", "run: unwrap on Err(request_airdrop)")]
    /\ UNCHANGED <<USED_PORTS, os_bound, source, ports, attempts, faucet, ack,
                   handles, log>>
    /\ UNCHANGED call

\* The runner is assembled and returned: Ok(runner), unwrapped by run.
assemble(r) ==
    /\ pc[r] = "assemble"
    /\ handles' = [handles EXCEPT ![r] = 1]
    /\ pc' = [pc EXCEPT ![r] = "ready"]
    /\ outcome' = [outcome EXCEPT ![r] =
           [kind |-> "Ok", internal |-> "Ok", cause |-> "none"]]
    /\ log' = [log EXCEPT ![r] = Append(@, "handle")]
    /\ UNCHANGED <<USED_PORTS, os_bound, source, ports, attempts, faucet, ack,
                   validator, airdrop>>
    /\ UNCHANGED call

\* ------------------------------------------------------------ the handle

\* #[derive(Clone)]: a second handle with the same ports and the same Arcs.
clone(r) ==
    /\ handles[r] > 0
    /\ handles[r] < MaxHandles
    /\ handles' = [handles EXCEPT ![r] = @ + 1]
    /\ UNCHANGED <<USED_PORTS, os_bound, pc, source, ports, attempts, faucet, ack,
                   validator, airdrop, outcome, log>>
    /\ UNCHANGED call

\* A mutation of DropFreed: the gossip loop with an exclusive upper end
\* (gossip_range.0..gossip_range.1).
DropFreedExclusive(p) ==
    <<p.rpc, p.pubsub, p.faucet>> \o SubSeq(GossipSeq(p), 1, Len(GossipSeq(p)) - 1)

\* The ports Drop calls free_port for, in call order.
DropFreed(p) == <<p.rpc, p.pubsub, p.faucet>> \o GossipSeq(p)

\* A mutation of drop: the whole registry is cleared.
drop_clearing(r) ==
    /\ handles[r] > 0
    /\ USED_PORTS' = {}
    /\ handles' = [handles EXCEPT ![r] = @ - 1]
    /\ IF handles[r] = 1
       THEN /\ pc' = [pc EXCEPT ![r] = "released"]
            /\ validator' = [validator EXCEPT ![r] = "closing"]
       ELSE UNCHANGED <<pc, validator>>
    /\ UNCHANGED <<os_bound, source, ports, attempts, faucet, ack, airdrop,
                   outcome, log>>
    /\ UNCHANGED call

\* Drop for TestValidatorRunner, run for one handle value: its ports are
\* freed; then its fields are dropped, and the last Arc<TestValidator> to go
\* drops the validator.
drop(r) ==
    /\ handles[r] > 0
    /\ USED_PORTS' = FreeAll(USED_PORTS, DropFreed(ports[r]))
    /\ handles' = [handles EXCEPT ![r] = @ - 1]
    /\ IF handles[r] = 1
       THEN /\ pc' = [pc EXCEPT ![r] = "released"]
            /\ validator' = [validator EXCEPT ![r] = "closing"]
       ELSE UNCHANGED <<pc, validator>>
    /\ UNCHANGED <<os_bound, source, ports, attempts, faucet, ack, airdrop,
                   outcome, log>>
    /\ UNCHANGED call

\* A dropped validator shuts down (a collaborator) and its ports are unbound.
validator_exit(r) ==
    /\ validator[r] = "closing"
    /\ validator' = [validator EXCEPT ![r] = "closed"]
    /\ os_bound' = os_bound \ ValidatorPorts(ports[r])
    /\ UNCHANGED <<USED_PORTS, pc, source, ports, attempts, faucet, ack, airdrop,
                   handles, outcome, log>>
    /\ UNCHANGED call

Next ==
    \E r \in Runners :
        \/ BuildExplicit(r)
        \/ BuildRandom(r)
        \/ find_ports(r)
        \/ reserve(r)
        \/ start_faucet(r)
        \/ faucet_thread(r)
        \/ recv_ack(r)
        \/ build_genesis(r)
        \/ start_validator(r)
        \/ validator_started(r)
        \/ construct_client(r)
        \/ request_airdrop(r)
        \/ airdrop_resolved(r)
        \/ assemble(r)
        \/ clone(r)
        \/ drop(r)
        \/ validator_exit(r)

Spec == Init /\ [][Next]_vars

\* find_ports is a plain loop on its caller's thread: a caller inside it keeps
\* taking iterations.
FindFairSpec == Spec /\ \A r \in Runners : WF_vars(find_ports(r))

\* run_internal is sequential code that its executor keeps polling, and the
\* three collaborators answer: the faucet thread sends or ends, start_async
\* resolves, the airdrop resolves.
LiveSpec ==
    /\ Spec
    /\ \A r \in Runners :
        /\ WF_vars(reserve(r))
        /\ WF_vars(start_faucet(r))
        /\ WF_vars(faucet_thread(r))
        /\ WF_vars(recv_ack(r))
        /\ WF_vars(build_genesis(r))
        /\ WF_vars(start_validator(r))
        /\ WF_vars(validator_started(r))
        /\ WF_vars(construct_client(r))
        /\ WF_vars(request_airdrop(r))
        /\ WF_vars(airdrop_resolved(r))
        /\ WF_vars(assemble(r))

\* ------------------------------------------------- props and genesis data

\* Pubkey::default(): the all-zero key, which is also system_program::ID.
Pubkey_default == "11111111111111111111111111111111"

system_program_ID == Pubkey_default

bpf_loader_upgradeable_ID == "BPFLoaderUpgradeab1e11111111111111111111111"

\* Keys a caller can name; a Keypair::new() is none of them.
CallerKeys == {"A", "B", Pubkey_default}

\* A u64 amount of lamports, kept as whole SOL and the lamports beside them
\* (an amount as large as 5 SOL in lamports is beyond 32 bits).
sol_to_lamports(sol) == [sol |-> sol, lamports |-> 0]

\* AccountSharedData::new(lamports, space, owner)
AccountSharedData_new(lamports, space, owner) ==
    [lamports |-> lamports, space |-> space, owner |-> owner]

\* Option<T>: None is <<>>, Some(v) is <<v>>.
None == <<>>

Some(v) == <<v>>

unwrap_or(o, d) == IF Len(o) = 0 THEN d ELSE o[1]

\* An empty HashMap<Pubkey, AccountSharedData>.
NoAccounts == [k \in {} |-> AccountSharedData_new(sol_to_lamports(0), 0, Pubkey_default)]

\* CommitmentLevel::default() of solana_sdk, which #[builder(default)] takes.
CommitmentLevel_default == "Finalized"

\* EpochSchedule::default() of solana_sdk.
EpochSchedule_default == "EpochSchedule::default"

\* TestProgramInfo::builder()...build(): program_id and program_path have to
\* be given.
TestProgramInfo_build(o) ==
    [program_id |-> o.program_id,
     program_path |-> o.program_path,
     upgrade_authority |-> unwrap_or(o.upgrade_authority, Pubkey_default),
     loader |-> unwrap_or(o.loader, bpf_loader_upgradeable_ID)]

\* A mutation of TestValidatorRunnerProps_build: warp_slot defaults to 0.
TestValidatorRunnerProps_build_warp_zero(o) ==
    [programs |-> unwrap_or(o.programs, <<>>),
     pubkeys |-> unwrap_or(o.pubkeys, <<>>),
     initial_lamports |-> unwrap_or(o.initial_lamports, sol_to_lamports(DefaultSol)),
     commitment |-> unwrap_or(o.commitment, CommitmentLevel_default),
     accounts |-> unwrap_or(o.accounts, NoAccounts),
     warp_slot |-> unwrap_or(o.warp_slot, 0),
     epoch_schedule |-> unwrap_or(o.epoch_schedule, EpochSchedule_default)]

\* TestValidatorRunnerProps::builder()...build(), its ports aside (they are
\* BuildExplicit and BuildRandom above).
TestValidatorRunnerProps_build(o) ==
    [programs |-> unwrap_or(o.programs, <<>>),
     pubkeys |-> unwrap_or(o.pubkeys, <<>>),
     initial_lamports |-> unwrap_or(o.initial_lamports, sol_to_lamports(DefaultSol)),
     commitment |-> unwrap_or(o.commitment, CommitmentLevel_default),
     accounts |-> unwrap_or(o.accounts, NoAccounts),
     warp_slot |-> unwrap_or(o.warp_slot, DefaultWarpSlot),
     epoch_schedule |-> unwrap_or(o.epoch_schedule, EpochSchedule_default)]

\* TestValidatorGenesis::add_account: a HashMap insert.
add_account(accounts, key, account) ==
    [k \in DOMAIN accounts \cup {key} |-> IF k = key THEN account ELSE accounts[k]]

\* TestValidatorGenesis::add_accounts over a sequence of (key, account) pairs.
RECURSIVE add_accounts(_, _)
add_accounts(accounts, pairs) ==
    IF pairs = <<>> THEN accounts
    ELSE add_accounts(add_account(accounts, Head(pairs)[1], Head(pairs)[2]), Tail(pairs))

\* TestValidatorGenesis::add_accounts over a HashMap: its keys are distinct,
\* so the order of iteration does not show.
add_accounts_map(accounts, map) ==
    [k \in DOMAIN accounts \cup DOMAIN map |->
        IF k \in DOMAIN map THEN map[k] ELSE accounts[k]]

funded_accounts(pubkeys, initial_lamports) ==
    [i \in 1..Len(pubkeys) |->
        <<pubkeys[i], AccountSharedData_new(initial_lamports, 0, Pubkey_default)>>]

\* A mutation of genesis_accounts: the caller's accounts are added before
\* the funded ones.
genesis_accounts_caller_first(props, faucet_pubkey) ==
    add_accounts(
        add_accounts_map(
            add_account(NoAccounts, faucet_pubkey,
                AccountSharedData_new(sol_to_lamports(FaucetSol), 0, system_program_ID)),
            props.accounts),
        funded_accounts(props.pubkeys, props.initial_lamports))

\* The accounts of the genesis run_internal configures.
genesis_accounts(props, faucet_pubkey) ==
    add_accounts_map(
        add_accounts(
            add_account(NoAccounts, faucet_pubkey,
                AccountSharedData_new(sol_to_lamports(FaucetSol), 0, system_program_ID)),
            funded_accounts(props.pubkeys, props.initial_lamports)),
        props.accounts)

\* The genesis run_internal configures for props and the PortSet p.
genesis_config(props, p, faucet_pubkey) ==
    [rpc_port |-> p.rpc,
     gossip_port |-> p.gossip_range[1],
     port_range |-> p.gossip_range,
     faucet_addr |-> Some(p.faucet),
     warp_slot |-> props.warp_slot,
     epoch_schedule |-> props.epoch_schedule,
     upgradeable_programs |-> props.programs,
     accounts |-> genesis_accounts(props, faucet_pubkey)]

\* A mutation of warmup_request: the airdrop goes to the faucet's key.
warmup_request_to_faucet(mint_pubkey, faucet_pubkey) ==
    [to |-> faucet_pubkey, lamports |-> sol_to_lamports(WarmupSol)]

\* rpc.request_airdrop(&mint_keypair.pubkey(), sol_to_lamports(500.0))
warmup_request(mint_pubkey, faucet_pubkey) ==
    [to |-> mint_pubkey, lamports |-> sol_to_lamports(WarmupSol)]


\* The keys of the two keypairs run_internal gets from Keypair::new() and
\* from start_async.
FaucetKey == "faucet_keypair.pubkey()"

MintKey == "mint_keypair.pubkey()"

\* Inputs of run_internal's genesis.
PubkeyLists == UNION {[1..n -> CallerKeys] : n \in 0..MaxPubkeys}

LamportChoices == {sol_to_lamports(DefaultSol), sol_to_lamports(2), sol_to_lamports(0)}

CustomAccounts ==
    {AccountSharedData_new([sol |-> 0, lamports |-> 1], 8, "A"),
     AccountSharedData_new(sol_to_lamports(DefaultSol), 0, Pubkey_default)}

AccountMaps == UNION {[S -> CustomAccounts] : S \in SUBSET CallerKeys}

GenesisProps ==
    {TestValidatorRunnerProps_build(
        [programs |-> None, pubkeys |-> Some(k), initial_lamports |-> Some(l),
         commitment |-> None, accounts |-> Some(a), warp_slot |-> None,
         epoch_schedule |-> None]) :
        k \in PubkeyLists, l \in LamportChoices, a \in AccountMaps}

\* Inputs of the two builders: each option left out, given as its default,
\* or given as something else.
OneProgram ==
    TestProgramInfo_build(
        [program_id |-> "A", program_path |-> "program.so",
         upgrade_authority |-> None, loader |-> None])

PropsOptions ==
    [programs : {None, Some(<<>>), Some(<<OneProgram>>)},
     pubkeys : {None, Some(<<>>), Some(<<"A">>)},
     initial_lamports : {None, Some(sol_to_lamports(DefaultSol)), Some(sol_to_lamports(2))},
     commitment : {None, Some("Processed"), Some("Confirmed"), Some("Finalized")},
     accounts : {None, Some(NoAccounts)} \cup {Some(a) : a \in [{"A"} -> CustomAccounts]},
     warp_slot : {None, Some(DefaultWarpSlot), Some(0)},
     epoch_schedule : {None, Some(EpochSchedule_default), Some("EpochSchedule::without_warmup")}]

ProgramOptions ==
    [program_id : {"A", "B"},
     program_path : {"program.so"},
     upgrade_authority : {None, Some(Pubkey_default), Some("A")},
     loader : {None, Some(bpf_loader_upgradeable_ID), Some("BPFLoader2111111111111111111111111111111111")}]

\* TestValidatorRunnerProps::builder()...build()
apply_props_build ==
    /\ call.fn = "none"
    /\ \E o \in PropsOptions :
        call' = [fn |-> "TestValidatorRunnerProps::build", arg |-> o,
                 out |-> TestValidatorRunnerProps_build(o)]
    /\ UNCHANGED run_vars

\* TestProgramInfo::builder()...build()
apply_program_build ==
    /\ call.fn = "none"
    /\ \E o \in ProgramOptions :
        call' = [fn |-> "TestProgramInfo::build", arg |-> o,
                 out |-> TestProgramInfo_build(o)]
    /\ UNCHANGED run_vars

\* The data of one run_internal: the genesis it configures and the warm-up
\* airdrop it requests.
apply_run_internal ==
    /\ call.fn = "none"
    /\ \E props \in GenesisProps, p \in ExplicitPortSets :
        call' = [fn |-> "run_internal", arg |-> [props |-> props, ports |-> p],
                 out |-> [genesis |-> genesis_config(props, p, FaucetKey),
                          airdrop |-> warmup_request(MintKey, FaucetKey)]]
    /\ UNCHANGED run_vars


\* ------------------------------------------------------ transaction status

\* CommitmentConfig::is_finalized / is_confirmed
is_finalized(commitment_config) == commitment_config = "Finalized"

is_confirmed(commitment_config) == commitment_config = "Confirmed"

\* A mutation of satisfies_commitment: one confirmation is enough for a
\* status without confirmation_status.
satisfies_commitment_one_confirmation(status, commitment_config) ==
    IF is_finalized(commitment_config)
    THEN Len(status.confirmations) = 0
    ELSE IF is_confirmed(commitment_config)
    THEN IF Len(status.confirmation_status) # 0
         THEN status.confirmation_status[1] # "Processed"
         ELSE \/ Len(status.confirmations) # 0 /\ status.confirmations[1] > 0
              \/ Len(status.confirmations) = 0
    ELSE TRUE

\* TransactionStatus::satisfies_commitment
satisfies_commitment(status, commitment_config) ==
    IF is_finalized(commitment_config)
    THEN Len(status.confirmations) = 0
    ELSE IF is_confirmed(commitment_config)
    THEN IF Len(status.confirmation_status) # 0
         THEN status.confirmation_status[1] # "Processed"
         ELSE \/ Len(status.confirmations) # 0 /\ status.confirmations[1] > 1
              \/ Len(status.confirmations) = 0
    ELSE TRUE

\* TransactionStatus::confirmation_status
confirmation_status(status) ==
    IF Len(status.confirmation_status) # 0 THEN status.confirmation_status[1]
    ELSE IF Len(status.confirmations) = 0 THEN "Finalized"
    ELSE IF status.confirmations[1] > 0 THEN "Confirmed"
    ELSE "Processed"

CommitmentLevels == {"Processed", "Confirmed", "Finalized"}

TransactionConfirmationStatuses == {"Processed", "Confirmed", "Finalized"}

TransactionStatuses ==
    [confirmations : {None} \cup {Some(n) : n \in 0..MaxConfirmations},
     confirmation_status : {None} \cup {Some(s) : s \in TransactionConfirmationStatuses}]

apply_satisfies_commitment ==
    /\ call.fn = "none"
    /\ \E status \in TransactionStatuses, c \in CommitmentLevels :
        call' = [fn |-> "satisfies_commitment",
                 arg |-> [status |-> status, commitment_config |-> c],
                 out |-> satisfies_commitment(status, c)]
    /\ UNCHANGED run_vars

apply_confirmation_status ==
    /\ call.fn = "none"
    /\ \E status \in TransactionStatuses :
        call' = [fn |-> "confirmation_status", arg |-> [status |-> status],
                 out |-> confirmation_status(status)]
    /\ UNCHANGED run_vars

\* ---------------------------------------------------------- parse_accounts

\* A message as the parsers see it: its keys, and what is_signer and
\* is_maybe_writable / is_writable answer for each index (0-based, as in the
\* code: key i is at position i + 1 of a sequence).
is_signer(message, i) == i < message.num_required_signatures

is_writable(message, i) == i \in message.writable

\* LoadedMessage::account_keys(): the static keys, then the loaded writable
\* and the loaded readonly addresses.
account_keys(message) ==
    message.static_account_keys \o message.loaded_writable \o message.loaded_readonly

parse_legacy_message_accounts(message) ==
    [n \in 1..Len(message.account_keys) |->
        [pubkey |-> message.account_keys[n],
         writable |-> is_writable(message, n - 1),
         signer |-> is_signer(message, n - 1),
         source |-> Some("Transaction")]]

\* A mutation of parse_v0_message_accounts: i <= the number of static keys.
parse_v0_message_accounts_off_by_one(message) ==
    [n \in 1..Len(account_keys(message)) |->
        [pubkey |-> account_keys(message)[n],
         writable |-> is_writable(message, n - 1),
         signer |-> is_signer(message, n - 1),
         source |-> IF n - 1 <= Len(message.static_account_keys)
                    THEN Some("Transaction") ELSE Some("LookupTable")]]

parse_v0_message_accounts(message) ==
    [n \in 1..Len(account_keys(message)) |->
        [pubkey |-> account_keys(message)[n],
         writable |-> is_writable(message, n - 1),
         signer |-> is_signer(message, n - 1),
         source |-> IF n - 1 < Len(message.static_account_keys)
                    THEN Some("Transaction") ELSE Some("LookupTable")]]

MessageKeys == {"A", "B"}

KeyLists(len) == UNION {[1..n -> MessageKeys] : n \in 0..len}

LegacyMessages ==
    UNION {[account_keys : {k},
            num_required_signatures : 0..Len(k),
            writable : SUBSET (0..(Len(k) - 1))] : k \in KeyLists(MaxKeys)}

LoadedMessages ==
    UNION {[static_account_keys : {s},
            loaded_writable : {w},
            loaded_readonly : {ro},
            num_required_signatures : 0..Len(s),
            writable : SUBSET (0..(Len(s) + Len(w) - 1))] :
           s \in KeyLists(MaxKeys), w \in KeyLists(MaxLoaded), ro \in KeyLists(MaxLoaded)}

apply_parse_legacy ==
    /\ call.fn = "none"
    /\ \E message \in LegacyMessages :
        call' = [fn |-> "parse_legacy_message_accounts", arg |-> message,
                 out |-> parse_legacy_message_accounts(message)]
    /\ UNCHANGED run_vars

apply_parse_v0 ==
    /\ call.fn = "none"
    /\ \E message \in LoadedMessages :
        call' = [fn |-> "parse_v0_message_accounts", arg |-> message,
                 out |-> parse_v0_message_accounts(message)]
    /\ UNCHANGED run_vars

\* ------------------------------------------------ EncodedTransaction::decode

\* bincode::deserialize(&bytes).ok(): bytes either are a transaction's or are
\* not.
bincode_deserialize(bytes) ==
    IF bytes.transaction THEN Some([signature |-> bytes.signature, sane |-> bytes.sane])
    ELSE None

\* Option::and_then
and_then_deserialize(o) == IF Len(o) = 0 THEN None ELSE bincode_deserialize(o[1])

\* transaction.sanitize().is_ok()
sanitize_is_ok(transaction) == transaction.sane

\* A mutation of decode: the sanitize filter left out.
decode_unfiltered(encoded) ==
    IF encoded.variant \in {"Json", "Accounts"} THEN None
    ELSE LET encoding == IF encoded.variant = "LegacyBinary" THEN "Base58"
                         ELSE encoded.encoding
             transaction == IF encoding = "Base58"
                            THEN and_then_deserialize(encoded.blob.base58)
                            ELSE and_then_deserialize(encoded.blob.base64)
         IN transaction

\* EncodedTransaction::decode.  A blob is what bs58::decode(blob).into_vec().ok()
\* and BASE64_STANDARD.decode(blob).ok() make of it.
decode(encoded) ==
    IF encoded.variant \in {"Json", "Accounts"} THEN None
    ELSE LET encoding == IF encoded.variant = "LegacyBinary" THEN "Base58"
                         ELSE encoded.encoding
             transaction == IF encoding = "Base58"
                            THEN and_then_deserialize(encoded.blob.base58)
                            ELSE and_then_deserialize(encoded.blob.base64)
         IN IF Len(transaction) # 0 /\ sanitize_is_ok(transaction[1])
            THEN transaction ELSE None

ByteStrings ==
    {[transaction |-> FALSE, signature |-> "none", sane |-> FALSE]}
    \cup [transaction : {TRUE}, signature : {"sig1", "sig2"}, sane : BOOLEAN]

Blobs ==
    [base58 : {None} \cup {Some(b) : b \in ByteStrings},
     base64 : {None} \cup {Some(b) : b \in ByteStrings}]

NoBlob == [base58 |-> None, base64 |-> None]

EncodedTransactions ==
    [variant : {"LegacyBinary"}, blob : Blobs, encoding : {"none"}]
    \cup [variant : {"Binary"}, blob : Blobs, encoding : {"Base58", "Base64"}]
    \cup [variant : {"Json", "Accounts"}, blob : {NoBlob}, encoding : {"none"}]

apply_decode ==
    /\ call.fn = "none"
    /\ \E encoded \in EncodedTransactions :
        call' = [fn |-> "decode", arg |-> encoded, out |-> decode(encoded)]
    /\ UNCHANGED run_vars

\* ------------------------------------------- pure functions, one at a time

\* One application of one function to one input, recorded in call.

FnNext ==
    \/ apply_props_build
    \/ apply_program_build
    \/ apply_run_internal
    \/ apply_satisfies_commitment
    \/ apply_confirmation_status
    \/ apply_parse_legacy
    \/ apply_parse_v0
    \/ apply_decode

FnSpec == Init /\ [][FnNext]_vars


\* ================================================================ claims

\* run_internal has marked r's ports and r's handle has not been released:
\* the run is in progress or its handle is live.
Reserving(r) ==
    pc[r] \in {"reserved", "ack_wait", "genesis", "start", "validator_wait",
               "client", "warmup", "airdrop_wait", "assemble", "ready"}

IsPrefix(s, t) == Len(s) <= Len(t) /\ s = SubSeq(t, 1, Len(s))

\* C1: no two PortSets obtained from the allocator and live at the same time
\* (marked by run_internal, handle not yet released) share a port.
C1_NoSharedLivePorts ==
    \A r1, r2 \in Runners :
        (r1 # r2 /\ source[r1] = "random" /\ source[r2] = "random"
            /\ Reserving(r1) /\ Reserving(r2))
        => PortsOf(ports[r1]) \cap PortsOf(ports[r2]) = {}

\* C2: a run whose explicit PortSet holds a port already reserved for another
\* Runner fails with a port-already-reserved condition when it reserves, and
\* no port is ever reserved on behalf of two Runners.
C2_ExplicitDoubleReserveFails ==
    /\ [](\A r1, r2 \in Runners :
            (r1 # r2 /\ source[r1] = "explicit" /\ Reserving(r1) /\ Reserving(r2))
            => PortsOf(ports[r1]) \cap PortsOf(ports[r2]) = {})
    /\ [][\A r \in Runners :
            (/\ pc[r] = "built"
             /\ pc'[r] # "built"
             /\ source[r] = "explicit"
             /\ \E r2 \in Runners \ {r} :
                    Reserving(r2) /\ PortsOf(ports[r]) \cap PortsOf(ports[r2]) # {})
            => (pc'[r] = "failed" /\ outcome'[r].cause = "port already reserved")]_vars

\* C3: the step that drops a handle leaves none of the handle's ports (rpc,
\* pubsub, faucet, gossip_range start..=end) in the registry, whatever the
\* state of the faucet and the validator.
C3_DropFreesEveryPort ==
    [][\A r \in Runners :
        handles'[r] < handles[r] => PortsOf(ports[r]) \cap USED_PORTS' = {}]_vars

\* A handle was released while its faucet is still running, and none of its
\* ports is in the registry.
C3_Witness ==
    \E r \in Runners :
        /\ pc[r] = "released"
        /\ faucet[r] = "running"
        /\ Cardinality(PortsOf(ports[r])) >= 24
        /\ PortsOf(ports[r]) \cap USED_PORTS = {}

\* C4: the stages a run has begun are a prefix of the fixed order, and a
\* stage has begun only if its predecessor succeeded: the genesis only after
\* the faucet acknowledged Ok, the client only after the validator started,
\* the handle only after the airdrop confirmed.
C4_StagesInOrder ==
    \A r \in Runners :
        /\ IsPrefix(log[r], StageOrder)
        /\ Len(log[r]) >= 1 => PortsOf(ports[r]) # {}
        /\ Len(log[r]) >= 3 => ack[r] = "Ok"
        /\ Len(log[r]) >= 5 => validator[r] \in {"running", "closing", "closed"}
        /\ Len(log[r]) >= 7 => airdrop[r] = "ok"

\* One run went through every stage while another stopped after starting
\* the faucet.
C4_Witness ==
    \E r1, r2 \in Runners :
        /\ log[r1] = StageOrder
        /\ pc[r2] = "failed"
        /\ log[r2] = <<"reserve", "faucet">>

\* C5: once a stage has failed, no later stage is executed and nothing is
\* retried: after a faucet error or a closed channel the validator is never
\* started, no client is built and no airdrop is issued; after a failed
\* validator start no airdrop is issued; after a failed airdrop no handle is
\* built; after port exhaustion run is not entered.
C5_FailureStopsTheRun ==
    \A r \in Runners :
        /\ ack[r] \in {"Err", "closed"}
            => (/\ IsPrefix(log[r], <<"reserve", "faucet">>)
                /\ validator[r] = "none"
                /\ airdrop[r] = "none"
                /\ handles[r] = 0)
        /\ validator[r] = "failed"
            => (/\ log[r] = <<"reserve", "faucet", "genesis", "validator">>
                /\ airdrop[r] = "none"
                /\ handles[r] = 0)
        /\ airdrop[r] = "err"
            => (/\ IsPrefix(log[r], SubSeq(StageOrder, 1, 6))
                /\ handles[r] = 0)
        /\ (source[r] = "random" /\ ports[r] = NoPorts) => log[r] = <<>>

\* A run has failed on a faucet error and stopped there.
C5_Witness ==
    \E r \in Runners :
        /\ ack[r] = "Err"
        /\ pc[r] = "failed"
        /\ log[r] = <<"reserve", "faucet">>

\* The stage failures a run has observed.
FaucetFailed(r) == pc[r] = "failed" /\ ack[r] \in {"Err", "closed"}
ValidatorFailed(r) == pc[r] = "failed" /\ validator[r] = "failed"
WarmupFailed(r) == pc[r] = "failed" /\ airdrop[r] = "err"
PortsExhausted(r) == pc[r] = "failed" /\ source[r] = "random" /\ ports[r] = NoPorts

C7_HandleOnlyWhenReady ==
    \A r \in Runners :
        /\ (handles[r] > 0 \/ outcome[r].kind = "Ok" \/ pc[r] \in {"ready", "released"})
            => (/\ log[r] = StageOrder
                /\ ack[r] = "Ok"
                /\ validator[r] \in {"running", "closing", "closed"}
                /\ airdrop[r] = "ok")
        /\ handles[r] > 0 => validator[r] = "running"
        /\ (pc[r] = "failed" \/ airdrop[r] = "err") => handles[r] = 0

\* One run returned a handle while another, whose airdrop failed, has none.
C7_Witness ==
    \E r1, r2 \in Runners :
        /\ handles[r1] > 0
        /\ pc[r1] = "ready"
        /\ airdrop[r2] = "err"
        /\ handles[r2] = 0

\* C8: while any handle value of a run is live, clones included, every port
\* of its PortSet is in the registry.
C8_LiveHandleOwnsPorts ==
    \A r \in Runners :
        handles[r] > 0 => PortsOf(ports[r]) \subseteq USED_PORTS

\* rpc, pubsub, faucet and the gossip ports are pairwise distinct and the
\* gossip range is not inverted.
PairwiseDistinct(p) ==
    /\ p.rpc # p.pubsub
    /\ p.rpc # p.faucet
    /\ p.pubsub # p.faucet
    /\ {p.rpc, p.pubsub, p.faucet} \cap GossipPorts(p) = {}
    /\ p.gossip_range[1] <= p.gossip_range[2]

\* C9: every PortSet a Ready handle owns, random or explicit, has pairwise
\* distinct ports and gossip_range start <= end.
C9_ReadyPortSetDistinct ==
    \A r \in Runners : pc[r] = "ready" => PairwiseDistinct(ports[r])

\* C10: every PortSet find_ports returned is base, base+1, base+2 and
\* (base+3, base+23) for a base in [1000, 65510): 24 distinct ports, a
\* gossip range of exactly 21 ports with start < end, nothing above 65535.
C10_RandomPortSetShape ==
    \A r \in Runners :
        (source[r] = "random" /\ ports[r] # NoPorts)
        => LET p == ports[r]
               base == p.rpc
           IN /\ 1000 <= base /\ base < 65510
              /\ p.pubsub = base + 1
              /\ p.faucet = base + 2
              /\ p.gossip_range = <<base + 3, base + 23>>
              /\ p.gossip_range[1] < p.gossip_range[2]
              /\ Cardinality(GossipPorts(p)) = 21
              /\ Cardinality(PortsOf(p)) = 24
              /\ \A q \in PortsOf(p) : q <= 65535

\* find_ports returned the PortSet of the highest base, whose last gossip
\* port is 65532.
C10_Witness ==
    \E r \in Runners :
        /\ source[r] = "random"
        /\ pc[r] = "built"
        /\ ports[r].rpc = 65509
        /\ ports[r].gossip_range[2] = 65532

\* The port is free at the OS and absent from the registry.
FreeAndUnreserved(q) == q \notin os_bound /\ q \notin USED_PORTS

\* C11: find_ports terminates.  Each attempt uses up one of 100; a PortSet
\* is returned only if each of its 24 ports is available at that attempt, an
\* attempt is repeated only if a candidate had an unavailable port, and
\* nothing is returned exactly when the 100th attempt fails.
C11_FindPortsTerminates ==
    /\ [](\A r \in Runners : pc[r] = "find" => (1 <= attempts[r] /\ attempts[r] <= 100))
    /\ [][\A r \in Runners :
            (pc[r] = "find" /\ attempts'[r] # attempts[r])
            => /\ pc'[r] = "built"
                   => (/\ Cardinality(PortsOf(ports'[r])) = 24
                       /\ \A q \in PortsOf(ports'[r]) : FreeAndUnreserved(q))
               /\ pc'[r] # "built"
                   => (/\ ports'[r] = NoPorts
                       /\ attempts'[r] = attempts[r] - 1
                       /\ \E b \in BaseChoices :
                              \E q \in PortsOf(Candidate(b)) : ~FreeAndUnreserved(q))
               /\ pc'[r] = "find" => attempts[r] > 1
               /\ pc'[r] = "failed" => attempts[r] = 1]_vars
    /\ \A r \in Runners : (pc[r] = "find") ~> (pc[r] # "find")

\* One search returned nothing after its 100th attempt while the PortSet of
\* another, successful search is in the registry.
C11_Witness ==
    \E r1, r2 \in Runners :
        /\ source[r1] = "random" /\ pc[r1] = "failed" /\ ports[r1] = NoPorts
        /\ attempts[r1] = 0
        /\ source[r2] = "random" /\ ports[r2] # NoPorts
        /\ PortsOf(ports[r2]) \subseteq USED_PORTS

\* The ports any caller of the model may name.
ProbePorts ==
    UNION ({PortsOf(p) : p \in ExplicitPortSets}
           \cup {PortsOf(Candidate(b)) : b \in BaseChoices})

\* C12: free_port is idempotent: freeing twice equals freeing once, freeing
\* an unreserved port changes nothing, and releasing a PortSet a second time
\* (dropping a second handle value of it) leaves the registry as it was.
C12_FreeIdempotent ==
    /\ [](\A q \in ProbePorts :
            /\ free_port(free_port(USED_PORTS, q), q) = free_port(USED_PORTS, q)
            /\ q \notin USED_PORTS => free_port(USED_PORTS, q) = USED_PORTS
            /\ q \notin free_port(USED_PORTS, q))
    /\ [](\A r \in Runners :
            FreeAll(FreeAll(USED_PORTS, DropFreed(ports[r])), DropFreed(ports[r]))
                = FreeAll(USED_PORTS, DropFreed(ports[r])))
    /\ [][\A r \in Runners :
            (handles'[r] < handles[r] /\ PortsOf(ports[r]) \cap USED_PORTS = {})
            => USED_PORTS' = USED_PORTS]_vars

\* One handle value of a cloned handle was dropped: its ports are out of the
\* registry, other ports are in it, and the other value is yet to be dropped.
C12_Witness ==
    \E r \in Runners :
        /\ handles[r] = 1
        /\ pc[r] = "ready"
        /\ PortsOf(ports[r]) \cap USED_PORTS = {}
        /\ USED_PORTS # {}

\* C13: is_port_available is true exactly of a port that is free at the OS
\* and absent from the registry; so the PortSet an attempt of find_ports
\* returns, the registry not changing during the attempt, holds no port of
\* the registry (and none bound at the OS).
C13_ReturnedPortsUnreserved ==
    /\ [](\A q \in ProbePorts :
            is_port_available(q) <=> (q \notin os_bound /\ q \notin USED_PORTS))
    /\ [][\A r \in Runners :
            (pc[r] = "find" /\ pc'[r] = "built" /\ USED_PORTS' = USED_PORTS)
            => (/\ PortsOf(ports'[r]) \cap USED_PORTS' = {}
                /\ PortsOf(ports'[r]) \cap os_bound' = {})]_vars

\* A search returned a PortSet while the registry held other ports, one of
\* them inside a PortSet the search could have drawn.
C13_Witness ==
    \E r \in Runners :
        /\ source[r] = "random"
        /\ pc[r] = "built"
        /\ PortsOf(ports[r]) \cap USED_PORTS = {}
        /\ \E b \in BaseChoices : PortsOf(Candidate(b)) \cap USED_PORTS # {}

\* The keys of a list.
Range(s) == {s[i] : i \in 1..Len(s)}

\* C14: the caller's accounts are merged into the genesis last: every key of
\* props.accounts has the caller's account in the genesis, a key that is
\* also a funded pubkey included, whatever initial_lamports is.
C14_CallerAccountsWin ==
    call.fn = "run_internal" =>
        LET props == call.arg.props
            accounts == call.out.genesis.accounts
        IN /\ DOMAIN props.accounts \subseteq DOMAIN accounts
           /\ \A k \in DOMAIN props.accounts : accounts[k] = props.accounts[k]

\* A funded pubkey is also a key of the caller's accounts, with another
\* account than the funded one.
C14_Witness ==
    /\ call.fn = "run_internal"
    /\ \E k \in Range(call.arg.props.pubkeys) \cap DOMAIN call.arg.props.accounts :
        /\ call.arg.props.accounts[k]
             # [lamports |-> call.arg.props.initial_lamports, space |-> 0,
                owner |-> Pubkey_default]
        /\ call.out.genesis.accounts[k] = call.arg.props.accounts[k]

\* C15: with no caller accounts the genesis accounts are the funded pubkeys,
\* each with initial_lamports, and the faucet's key besides, one account
\* each; the warm-up airdrop asks 500 SOL for the mint keypair's key.
C15_FundedAndFaucetSeeded ==
    (call.fn = "run_internal" /\ DOMAIN call.arg.props.accounts = {}) =>
        LET props == call.arg.props
            F == Range(props.pubkeys)
            accounts == call.out.genesis.accounts
        IN /\ DOMAIN accounts = F \cup {FaucetKey}
           /\ Cardinality(DOMAIN accounts) = Cardinality(F) + 1
           /\ \A k \in F : accounts[k].lamports = props.initial_lamports
           /\ call.out.airdrop = [to |-> MintKey, lamports |-> [sol |-> 500, lamports |-> 0]]

\* pubkeys = [A, B] with initial_lamports = 2_000_000_000 and no accounts.
C15_Witness ==
    /\ call.fn = "run_internal"
    /\ call.arg.props.pubkeys = <<"A", "B">>
    /\ call.arg.props.initial_lamports = [sol |-> 2, lamports |-> 0]
    /\ DOMAIN call.arg.props.accounts = {}
    /\ Cardinality(DOMAIN call.out.genesis.accounts) = 3

\* C16: processed is always satisfied; finalized iff confirmations is None;
\* confirmed iff confirmation_status is present and not Processed, or absent
\* with confirmations None or above 1.
C16_SatisfiesCommitment ==
    call.fn = "satisfies_commitment" =>
        LET c == call.arg.commitment_config
            confirmations == call.arg.status.confirmations
            status == call.arg.status.confirmation_status
        IN /\ c = "Processed" => call.out
           /\ c = "Finalized" => (call.out <=> Len(confirmations) = 0)
           /\ c = "Confirmed" =>
                (call.out <=>
                    \/ Len(status) = 1 /\ status[1] # "Processed"
                    \/ /\ Len(status) = 0
                       /\ (Len(confirmations) = 0 \/ confirmations[1] > 1))

\* A status of older software with one confirmation does not satisfy
\* confirmed.
C16_Witness ==
    /\ call.fn = "satisfies_commitment"
    /\ call.arg.commitment_config = "Confirmed"
    /\ Len(call.arg.status.confirmation_status) = 0
    /\ call.arg.status.confirmations = <<1>>
    /\ ~call.out

\* C17: both parsers return one ParsedAccount per key, in key order, with
\* that key; legacy sources are all Transaction; v0 sources are Transaction
\* for the static keys and LookupTable for the loaded addresses.
C17_ParsedAccountsFollowKeys ==
    /\ call.fn = "parse_legacy_message_accounts" =>
        /\ DOMAIN call.out = 1..Len(call.arg.account_keys)
        /\ \A n \in DOMAIN call.out :
            /\ call.out[n].pubkey = call.arg.account_keys[n]
            /\ call.out[n].source = <<"Transaction">>
    /\ call.fn = "parse_v0_message_accounts" =>
        LET static == call.arg.static_account_keys
            loaded == call.arg.loaded_writable \o call.arg.loaded_readonly
        IN /\ DOMAIN call.out = 1..(Len(static) + Len(loaded))
           /\ \A n \in 1..Len(static) :
                /\ call.out[n].pubkey = static[n]
                /\ call.out[n].source = <<"Transaction">>
           /\ \A n \in 1..Len(loaded) :
                /\ call.out[Len(static) + n].pubkey = loaded[n]
                /\ call.out[Len(static) + n].source = <<"LookupTable">>

\* A v0 message with static keys and both kinds of loaded addresses parsed.
C17_Witness ==
    /\ call.fn = "parse_v0_message_accounts"
    /\ Len(call.arg.static_account_keys) = 2
    /\ Len(call.arg.loaded_writable) = 1
    /\ Len(call.arg.loaded_readonly) = 1
    /\ call.out[2].source = <<"Transaction">>
    /\ call.out[3].source = <<"LookupTable">>

\* C18: decode returns a transaction exactly for a LegacyBinary blob (read
\* as base58) or a Binary blob (read in its encoding) that decodes,
\* deserializes and passes sanitization, and None otherwise.
C18_DecodeOnlySaneBinary ==
    call.fn = "decode" =>
        LET e == call.arg
            bytes == IF e.variant = "LegacyBinary" THEN e.blob.base58
                     ELSE IF e.variant = "Binary" /\ e.encoding = "Base58" THEN e.blob.base58
                     ELSE e.blob.base64
            good == /\ e.variant \in {"LegacyBinary", "Binary"}
                    /\ Len(bytes) = 1
                    /\ bytes[1].transaction
                    /\ bytes[1].sane
        IN IF good
           THEN call.out = <<[signature |-> bytes[1].signature, sane |-> TRUE]>>
           ELSE call.out = <<>>

\* A Binary base64 blob that deserializes to a transaction failing
\* sanitization gave None.
C18_Witness ==
    /\ call.fn = "decode"
    /\ call.arg.variant = "Binary"
    /\ call.arg.encoding = "Base64"
    /\ Len(call.arg.blob.base64) = 1
    /\ call.arg.blob.base64[1].transaction
    /\ ~call.arg.blob.base64[1].sane
    /\ call.out = <<>>

\* The defaults as documented, the commitment level left open.
DocumentedDefaults(commitment) ==
    [programs |-> <<>>,
     pubkeys |-> <<>>,
     initial_lamports |-> [sol |-> 5, lamports |-> 0],
     commitment |-> commitment,
     accounts |-> NoAccounts,
     warp_slot |-> 1000,
     epoch_schedule |-> EpochSchedule_default]

\* Every option is left out or given as its default.
GivenAsDefault(o, d) == \A f \in DOMAIN o : Len(o[f]) = 0 \/ o[f] = <<d[f]>>

\* Props built from options left out or given as the defaults d are d, and
\* a TestProgramInfo's authority and loader default to the zero key and the
\* upgradeable loader.
DefaultsRoundTrip(d) ==
    /\ (call.fn = "TestValidatorRunnerProps::build" /\ GivenAsDefault(call.arg, d))
        => call.out = d
    /\ call.fn = "TestProgramInfo::build" =>
        /\ call.out.program_id = call.arg.program_id
        /\ Len(call.arg.upgrade_authority) = 0 => call.out.upgrade_authority = Pubkey_default
        /\ Len(call.arg.loader) = 0 => call.out.loader = bpf_loader_upgradeable_ID

\* C19 as stated: props built with no option set equal props built with
\* every documented default given, the default commitment being Processed.
C19_DefaultsAsDocumented == DefaultsRoundTrip(DocumentedDefaults("Processed"))

\* C19: props built with no option set equal props built with every default
\* given: 5 SOL, commitment Finalized (CommitmentLevel's default),
\* warp_slot 1000, the default epoch schedule, no programs, pubkeys or
\* accounts; TestProgramInfo defaults to the zero upgrade authority and the
\* upgradeable loader.
C19_DefaultsRoundTrip == DefaultsRoundTrip(DocumentedDefaults("Finalized"))

\* Props were built with every option given as its default.
C19_Witness ==
    /\ call.fn = "TestValidatorRunnerProps::build"
    /\ \A f \in DOMAIN call.arg : Len(call.arg[f]) = 1
    /\ GivenAsDefault(call.arg, DocumentedDefaults("Finalized"))
    /\ call.out.commitment = "Finalized"

\* C20: the allocator only reads the registry: no step of random_ports /
\* find_ports changes it, and whatever is inserted is inserted by a run's
\* reservation stage, which inserts that run's PortSet.
C20_AllocatorOnlyReads ==
    /\ [][\A r \in Runners :
            (pc[r] \in {"new", "find"} /\ (pc'[r] # pc[r] \/ attempts'[r] # attempts[r]))
            => USED_PORTS' = USED_PORTS]_vars
    /\ [][~(USED_PORTS' \subseteq USED_PORTS)
            => \E r \in Runners :
                /\ pc[r] = "built" /\ pc'[r] = "reserved"
                /\ USED_PORTS' = USED_PORTS \cup PortsOf(ports[r])]_vars

\* Two allocators have each been handed a PortSet holding the same port,
\* and neither has marked any of its ports.
C20_Witness ==
    \E r1, r2 \in Runners :
        /\ r1 # r2
        /\ source[r1] = "random" /\ source[r2] = "random"
        /\ pc[r1] = "built" /\ pc[r2] = "built"
        /\ PortsOf(ports[r1]) \cap PortsOf(ports[r2]) # {}
        /\ (PortsOf(ports[r1]) \cup PortsOf(ports[r2])) \cap USED_PORTS = {}


\* The run is blocked on a collaborator that has not answered.
Waiting(r) ==
    \/ pc[r] = "ack_wait" /\ ack[r] = "open"
    \/ pc[r] = "validator_wait"
    \/ pc[r] = "airdrop_wait"

\* The run ended Ready (a handle was returned) or Failed.
Ended(r) == pc[r] \in {"ready", "released", "failed"}

\* C21: a run that fails after it has reserved its ports has released them:
\* none of the ports it marked is in the registry once it has failed.
C21_FailedRunReleasesPorts ==
    \A r \in Runners :
        (pc[r] = "failed" /\ "reserve" \in Range(log[r]))
        => PortsOf(ports[r]) \cap USED_PORTS = {}

\* C22: when the faucet service is about to be started, every port of the
\* run's PortSet is in the registry.
C22_PortsMarkedWhenFaucetStarts ==
    \A r \in Runners : pc[r] = "reserved" => PortsOf(ports[r]) \subseteq USED_PORTS

\* C23: the ports Drop frees are the ports run marks (rpc, pubsub, faucet
\* and the gossip range, both ends included); so marking and then freeing a
\* PortSet disjoint from the registry gives the registry back, and a run that
\* is the only one to have reserved anything leaves the registry as it was,
\* empty, once its handle is dropped.
C23_DropUndoesReserve ==
    /\ [](\A r \in Runners :
            /\ Range(DropFreed(ports[r])) = Range(MarkedPorts(ports[r]))
            /\ Range(MarkedPorts(ports[r])) =
                 {ports[r].rpc, ports[r].pubsub, ports[r].faucet}
                 \cup (ports[r].gossip_range[1]..ports[r].gossip_range[2])
            /\ (pc[r] = "built" /\ PortsOf(ports[r]) \cap USED_PORTS = {})
                => FreeAll(MarkAll(USED_PORTS, MarkedPorts(ports[r])),
                           DropFreed(ports[r])) = USED_PORTS
            /\ (pc[r] = "released" /\ \A q \in Runners \ {r} : log[q] = <<>>)
                => USED_PORTS = {})
    /\ [][\A r \in Runners :
            /\ (pc[r] = "built" /\ pc'[r] = "reserved")
                => USED_PORTS' = USED_PORTS \cup Range(MarkedPorts(ports[r]))
            /\ (handles[r] = 1 /\ handles'[r] = 0)
                => USED_PORTS' = USED_PORTS \ Range(MarkedPorts(ports[r]))]_vars

\* A run, the only one to have reserved anything, became Ready and its
\* handle was dropped.
C23_Witness ==
    \E r \in Runners :
        /\ pc[r] = "released"
        /\ \A q \in Runners \ {r} : log[q] = <<>>
        /\ Cardinality(PortsOf(ports[r])) > 3
        /\ USED_PORTS = {}

\* A drop of a handle value of r, seen as a step.
Dropped(r) == handles'[r] < handles[r]

\* What every drop does: it removes the ports of the handle's PortSet and no
\* other, and leaves the faucets and the bound sockets alone.
DropFrame(r) ==
    /\ USED_PORTS' = USED_PORTS \ PortsOf(ports[r])
    /\ faucet' = faucet
    /\ os_bound' = os_bound
    /\ \A q \in Runners \ {r} : validator'[q] = validator[q]

\* C24 as stated: a drop removes only ports of its own PortSet from the
\* registry and changes neither the validator nor the faucet.
C24_DropChangesNoService ==
    [][\A r \in Runners : Dropped(r) => (DropFrame(r) /\ validator'[r] = validator[r])]_vars

\* C24: a drop removes only ports of its own PortSet from the registry and
\* leaves the faucet alone; the validator is left alone while another handle
\* value remains, and is closed when the last one is dropped.
C24_DropFrame ==
    [][\A r \in Runners :
        Dropped(r) =>
            /\ DropFrame(r)
            /\ handles'[r] > 0 => validator'[r] = validator[r]
            /\ handles'[r] = 0 => validator'[r] = "closing"]_vars

\* One handle value of a cloned handle has been dropped while the registry
\* holds ports of another run, the faucet and the validator still running.
C24_Witness ==
    \E r \in Runners :
        /\ handles[r] = 1
        /\ pc[r] = "ready"
        /\ PortsOf(ports[r]) \cap USED_PORTS = {}
        /\ USED_PORTS # {}
        /\ faucet[r] = "running"
        /\ validator[r] = "running"

\* C25: with collaborators that answer, every run that has its props ends
\* Ready or Failed, several runs progressing concurrently included.
C25_EveryRunEnds ==
    \A r \in Runners : (pc[r] = "built") ~> Ended(r)

\* Both runs have ended, one Ready and one Failed after reserving.
C25_Witness ==
    \E r1, r2 \in Runners :
        /\ pc[r1] = "ready"
        /\ pc[r2] = "failed"
        /\ "reserve" \in Range(log[r2])

\* C26: a run blocked on a collaborator that has not answered has returned
\* nothing, leaves the wait only on the collaborator's answer, and its ports
\* stay in the registry meanwhile.
C26_HangKeepsPortsReserved ==
    /\ [](\A r \in Runners :
            Waiting(r) =>
                /\ outcome[r] = NoOutcome
                /\ handles[r] = 0
                /\ PortsOf(ports[r]) \subseteq USED_PORTS)
    /\ [][\A r \in Runners :
            (Waiting(r) /\ pc'[r] = pc[r]) => (outcome'[r] = NoOutcome /\ handles'[r] = 0)]_vars


\* C27: a status satisfies the confirmed commitment exactly when its
\* confirmation_status() is Confirmed or Finalized.
C27_ConfirmedAgreesWithStatus ==
    (call.fn = "satisfies_commitment" /\ call.arg.commitment_config = "Confirmed") =>
        (call.out <=> confirmation_status(call.arg.status) \in {"Confirmed", "Finalized"})

\* C28: satisfies_commitment is monotone in the level: a status satisfying
\* finalized satisfies confirmed, and one satisfying confirmed satisfies
\* processed.
C28_MonotoneInLevel ==
    (call.fn = "satisfies_commitment" /\ call.out) =>
        /\ call.arg.commitment_config = "Finalized"
            => satisfies_commitment(call.arg.status, "Confirmed")
        /\ call.arg.commitment_config = "Confirmed"
            => satisfies_commitment(call.arg.status, "Processed")


====
